---- MODULE Spec2Model ----
(***************************************************************************)
(* NYC Citi Bike Station Status: the feed reconciliation pipeline          *)
(* (helpers.py query_station_status / get_station_latlon / join_latlon,    *)
(* app.py load_station_data), the proximity resolver                       *)
(* (get_bike_availability / get_dock_availability), the session state      *)
(* written by lookup_and_store_nearest, and the three st.cache_data        *)
(* caches.                                                                 *)
(*                                                                         *)
(* A DataFrame is a sequence of rows (records); a row's idx field is its   *)
(* index label.  Index labels are 1-based here (pandas: 0-based).          *)
(* Python's None is the empty tuple; a non-None scalar x is <<x>>.         *)
(***************************************************************************)
EXTENDS Integers, Sequences, FiniteSets, TLC

VARIABLES
    \* ---- reconciliation pipeline (load_station_data)
    status_feed,      \* what the status endpoint answers
    info_feed,        \* what the info endpoint answers
    keeps_index,      \* whether this build's pd.json_normalize keeps a Series' index
    status_df,        \* load_station_data's three results
    info_df,
    stations_df,
    pc,               \* "start" | "loaded"
    \* ---- proximity resolver called on its own
    near_df, near_latlon, near_modes, near_result,
    \* ---- st.session_state and the last handler run
    user_location, nearest_bike_station, nearest_dock_station,
    route_coordinates, route_duration, last,
    \* ---- the three st.cache_data caches and the last pass
    now, status_cache, info_cache, load_cache, pass

feedVars  == <<status_feed, info_feed, keeps_index, status_df, info_df, stations_df, pc>>
nearVars  == <<near_df, near_latlon, near_modes, near_result>>
sessVars  == <<user_location, nearest_bike_station, nearest_dock_station,
               route_coordinates, route_duration, last>>
cacheVars == <<now, status_cache, info_cache, load_cache, pass>>
vars      == <<feedVars, nearVars, sessVars, cacheVars>>

(***************************************************************************)
(* Values                                                                  *)
(***************************************************************************)
\* pandas' missing value (NaN / NaT): every real count, time and coordinate is >= 0
NaN == -1

None == <<>>
Some(x) == <<x>>

\* Length bounds of the inputs
MaxStations == 2
MaxRows == 2

fillna0(x) == IF x = NaN THEN 0 ELSE x

\* A station id as the feed emits it: a JSON number or a JSON string.
IntId(d) == [kind |-> "int", v |-> d]
StrId(d) == [kind |-> "str", v |-> d]
NanId    == [kind |-> "nan", v |-> "nan"]

\* astype(str): 72 and "72" both become "72"; a missing id becomes "nan"
astype_str(raw) == raw.v

RECURSIVE SortedSeq(_)
SortedSeq(S) ==
    IF S = {} THEN <<>>
    ELSE LET m == CHOOSE x \in S : \A y \in S : x <= y
         IN  <<m>> \o SortedSeq(S \ {m})

SeqsUpTo(S, n) == UNION {[1..k -> S] : k \in 0..n}

(***************************************************************************)
(* helpers.py: query_station_status                                        *)
(***************************************************************************)
\* line 28: df[(df['is_renting'] == 1) & (df['is_returning'] == 1)]
PassesGate(rec) == rec.is_renting = 1 /\ rec.is_returning = 1

\* lines 28-29: the index labels left after the gate and
\* drop_duplicates(['station_id', 'last_reported']) (keep='first'), which
\* compares the ids as the feed emitted them (astype(str) comes at line 46)
Kept(stations) ==
    {i \in DOMAIN stations :
        /\ PassesGate(stations[i])
        /\ ~\E j \in 1..(i - 1) :
              /\ PassesGate(stations[j])
              /\ stations[j].station_id = stations[i].station_id
              /\ stations[j].last_reported = stations[i].last_reported}

\* lines 34-39: pd.json_normalize(df['num_bikes_available_types']).fillna(0)
\* One row per surviving record, in order.  The frame's index is the Series'
\* own index when json_normalize keeps it, and a fresh RangeIndex when it
\* builds the frame from list(data).
BikeTypes(stations, keep) ==
    LET ks == SortedSeq(Kept(stations))
    IN  {[label      |-> IF keep THEN ks[p] ELSE p,
          mechanical |-> fillna0(stations[ks[p]].types.mechanical),
          ebike      |-> fillna0(stations[ks[p]].types.ebike)] : p \in 1..Len(ks)}

\* whether json_normalize produced the column at all (some dict has the key)
HasTypeColumn(stations, col) ==
    \E k \in Kept(stations) : stations[k].types[col] # NaN

\* line 40: pd.concat([df.drop(...), bike_types], axis=1) aligns the two
\* frames on their index labels (outer join); lines 42-44 add a column of 0
\* for a sub-type no dict has.
TypeValue(stations, keep, with_types, l, col) ==
    IF ~with_types \/ ~HasTypeColumn(stations, col) THEN 0
    ELSE IF \E b \in BikeTypes(stations, keep) : b.label = l
         THEN (CHOOSE b \in BikeTypes(stations, keep) : b.label = l)[col]
         ELSE NaN

StatusRow(stations, keep, with_types, l) ==
    LET in == l \in Kept(stations)
    IN  [idx                 |-> l,
         station_id          |-> astype_str(IF in THEN stations[l].station_id ELSE NanId),
         num_bikes_available |-> IF in THEN stations[l].num_bikes_available ELSE NaN,
         num_docks_available |-> IF in THEN stations[l].num_docks_available ELSE NaN,
         last_reported       |-> IF in THEN stations[l].last_reported ELSE NaN,
         mechanical          |-> TypeValue(stations, keep, with_types, l, "mechanical"),
         ebike               |-> TypeValue(stations, keep, with_types, l, "ebike")]

\* The index of the frame line 40 builds: df's labels, then (sort=False) the
\* labels only bike_types has
ConcatLabels(stations, keep, with_types) ==
    SortedSeq(Kept(stations)) \o
    (IF with_types
     THEN SortedSeq({b.label : b \in BikeTypes(stations, keep)} \ Kept(stations))
     ELSE <<>>)

query_station_status(feed, keep) ==
    IF ~feed.ok THEN <<>>                      \* URLError: pd.DataFrame()
    ELSE IF feed.stations = <<>> THEN <<>>     \* df.empty
    ELSE LET ls == ConcatLabels(feed.stations, keep, feed.has_types)
         IN  [p \in 1..Len(ls) |->
                 StatusRow(feed.stations, keep, feed.has_types, ls[p])]

(***************************************************************************)
(* helpers.py: get_station_latlon, join_latlon                             *)
(***************************************************************************)
get_station_latlon(feed) ==
    IF ~feed.ok THEN <<>>
    ELSE [i \in DOMAIN feed.stations |->
             [station_id |-> astype_str(feed.stations[i].station_id),
              lat        |-> feed.stations[i].lat,
              lon        |-> feed.stations[i].lon,
              capacity   |-> feed.stations[i].capacity]]

JoinedRow(row, lat, lon, capacity) ==
    [idx                 |-> row.idx,
     station_id          |-> row.station_id,
     num_bikes_available |-> row.num_bikes_available,
     num_docks_available |-> row.num_docks_available,
     last_reported       |-> row.last_reported,
     mechanical          |-> row.mechanical,
     ebike               |-> row.ebike,
     lat                 |-> lat,
     lon                 |-> lon,
     capacity            |-> capacity]

\* df1.merge(df2[...], how='left', on='station_id'), one left row at a time:
\* a row per matching info record, or the row alone with the info columns NaN
MergeRow(row, df2) ==
    LET ms == SelectSeq(df2, LAMBDA r : r.station_id = row.station_id)
    IN  IF ms = <<>> THEN <<JoinedRow(row, NaN, NaN, NaN)>>
        ELSE [j \in DOMAIN ms |-> JoinedRow(row, ms[j].lat, ms[j].lon, ms[j].capacity)]

RECURSIVE Merge(_, _)
Merge(df1, df2) ==
    IF df1 = <<>> THEN <<>>
    ELSE MergeRow(Head(df1), df2) \o Merge(Tail(df1), df2)

\* join_latlon with how='inner': a row without an info record is dropped
join_latlon_inner(df1, df2) ==
    IF df1 = <<>> \/ df2 = <<>> THEN <<>>
    ELSE SelectSeq(Merge(df1, df2), LAMBDA r : r.lat # NaN)

join_latlon(df1, df2) ==
    IF df1 = <<>> \/ df2 = <<>> THEN <<>>      \* lines 66-67
    ELSE Merge(df1, df2)

(***************************************************************************)
(* app.py: load_station_data                                               *)
(***************************************************************************)
\* lines 46-50: pd.to_numeric(..., errors="coerce").fillna(0)
Coerce(row) ==
    [row EXCEPT !.num_bikes_available = fillna0(@),
                !.num_docks_available = fillna0(@),
                !.mechanical          = fillna0(@),
                !.ebike               = fillna0(@),
                !.capacity            = fillna0(@)]

load_station_data(sfeed, ifeed, keep) ==
    LET s == query_station_status(sfeed, keep)
        i == get_station_latlon(ifeed)
        j == join_latlon(s, i)
    IN  [status_df   |-> s,
         info_df     |-> i,
         stations_df |-> [p \in DOMAIN j |-> Coerce(j[p])]]

(***************************************************************************)
(* helpers.py: the proximity resolver                                      *)
(***************************************************************************)
\* geodesic(latlon, (lat, lon)).km, abstracted to the squared distance on an
\* integer grid: only the order of distances matters to the resolver
Distance(latlon, lat, lon) ==
    (latlon[1] - lat) * (latlon[1] - lat) + (latlon[2] - lon) * (latlon[2] - lon)

\* lines 105-107 / 127-129: df.apply computes the distance of EVERY row before
\* any filtering; geopy's Point refuses a non-finite coordinate with a
\* ValueError, which leaves the function by exception
DistanceRaises(df) == \E i \in DOMAIN df : df[i].lat = NaN \/ df[i].lon = NaN

Columns == {"idx", "station_id", "num_bikes_available", "num_docks_available",
            "last_reported", "mechanical", "ebike", "lat", "lon", "capacity"}

\* lines 109-116
BikeCandidate(row, input_bike_modes) ==
    /\ IF Len(input_bike_modes) = 1
       THEN (input_bike_modes[1] \in Columns => row[input_bike_modes[1]] > 0)
       ELSE row.mechanical > 0 \/ row.ebike > 0
    /\ row.num_bikes_available > 0

\* line 130
DockCandidate(row) == row.num_docks_available > 0

\* lines 120-121 / 135-136: df.loc[df['distance'].idxmin()], the first row of
\* minimum distance, as [station_id, lat, lon]
Closest(latlon, df) ==
    LET d(i) == Distance(latlon, df[i].lat, df[i].lon)
        m == CHOOSE i \in DOMAIN df :
                 /\ \A j \in DOMAIN df : d(i) <= d(j)
                 /\ \A j \in 1..(i - 1) : d(j) > d(i)
    IN  <<df[m].station_id, df[m].lat, df[m].lon>>

\* The result of a resolver call: raised, or the value returned
Raised == [raised |-> TRUE, value |-> None]
Returned(v) == [raised |-> FALSE, value |-> v]

get_bike_availability(latlon, df, input_bike_modes) ==
    IF DistanceRaises(df) THEN Raised
    ELSE LET c == SelectSeq(df, LAMBDA r : BikeCandidate(r, input_bike_modes))
         IN  IF c = <<>> THEN Returned(None) ELSE Returned(Closest(latlon, c))

get_dock_availability(latlon, df) ==
    IF DistanceRaises(df) THEN Raised
    ELSE LET c == SelectSeq(df, LAMBDA r : DockCandidate(r))
         IN  IF c = <<>> THEN Returned(None) ELSE Returned(Closest(latlon, c))

(***************************************************************************)
(* helpers.py: geocode, run_osrm                                           *)
(***************************************************************************)
\* The addresses the geocoding service knows, with their (lat, lon)
Gazetteer == [a \in {"times square", "battery park"} |->
                 IF a = "times square" THEN <<1, 1>> ELSE <<3, 3>>]

\* lines 89-94: '' (falsy, None here) when the service finds nothing
geocode(address) ==
    IF address \in DOMAIN Gazetteer THEN Gazetteer[address] ELSE None

\* The routing service's answer for the waypoints of the URL, each "lon,lat":
\* a transport error or bad status, an empty route list, or one route whose
\* geometry is in (lon, lat) order and whose duration is in seconds
OsrmAnswers == {"error", "no_routes", "ok"}
OsrmRoute(start, end) ==
    [coordinates |-> <<start, end>>,
     duration    |-> 90 * (1 + (start[1] - end[1]) * (start[1] - end[1])
                              + (start[2] - end[2]) * (start[2] - end[2]))]

\* line 159: round(duration / 60, 1), in tenths of a minute
RoundMinutes(seconds) == (seconds * 10 + 30) \div 60

\* lines 141-161: the pair (coordinates, duration)
run_osrm(chosen_station, iamhere, answer) ==
    IF answer # "ok" THEN <<None, None>>
    ELSE LET start == <<iamhere[2], iamhere[1]>>
             end   == <<chosen_station[3], chosen_station[2]>>
             r     == OsrmRoute(start, end)
         IN  <<[k \in DOMAIN r.coordinates |->
                   <<r.coordinates[k][2], r.coordinates[k][1]>>],
               Some(RoundMinutes(r.duration))>>

(***************************************************************************)
(* app.py: lookup_and_store_nearest                                        *)
(***************************************************************************)
SessionState ==
    [user_location        |-> user_location,
     nearest_bike_station |-> nearest_bike_station,
     nearest_dock_station |-> nearest_dock_station,
     route_coordinates    |-> route_coordinates,
     route_duration       |-> route_duration]

\* lines 158-167
InitialSession ==
    [user_location        |-> None,
     nearest_bike_station |-> None,
     nearest_dock_station |-> None,
     route_coordinates    |-> None,
     route_duration       |-> None]

\* the bike branch forgetting to clear the dock result, and vice versa
StoreNearestKeepOther(S, lookup_type, nearest) ==
    IF lookup_type = "bike"
    THEN [S EXCEPT !.nearest_bike_station = nearest]
    ELSE [S EXCEPT !.nearest_dock_station = nearest]

\* lines 181-182 / 185-186
StoreNearest(S, lookup_type, nearest) ==
    IF lookup_type = "bike"
    THEN [S EXCEPT !.nearest_bike_station = nearest, !.nearest_dock_station = None]
    ELSE [S EXCEPT !.nearest_dock_station = nearest, !.nearest_bike_station = None]

\* the route written only when a station was found
StoreRouteKeepStale(S, nearest, coords, answer) ==
    IF nearest # None
    THEN [S EXCEPT !.route_coordinates = run_osrm(nearest, coords, answer)[1],
                   !.route_duration    = run_osrm(nearest, coords, answer)[2]]
    ELSE S

\* lines 188-194
StoreRoute(S, nearest, coords, answer) ==
    IF nearest # None
    THEN [S EXCEPT !.route_coordinates = run_osrm(nearest, coords, answer)[1],
                   !.route_duration    = run_osrm(nearest, coords, answer)[2]]
    ELSE [S EXCEPT !.route_coordinates = None, !.route_duration = None]

\* lines 170-194.  The session state the handler leaves and how it ended:
\* geocode_miss (line 174), raised (the resolver left by exception, after line
\* 176 assigned user_location), none_found, route_failed or routed.
lookup_and_store_nearest(S, df, address, lookup_type, bike_type_value, answer) ==
    LET coords == geocode(address)
        S1     == [S EXCEPT !.user_location = coords]
        modes  == IF bike_type_value # None THEN bike_type_value ELSE <<>>
        found  == IF lookup_type = "bike"
                  THEN get_bike_availability(coords, df, modes)
                  ELSE get_dock_availability(coords, df)
        S2     == StoreRoute(StoreNearest(S1, lookup_type, found.value),
                             found.value, coords, answer)
    IN  IF coords = None THEN [state |-> S, outcome |-> "geocode_miss"]
        ELSE IF found.raised THEN [state |-> S1, outcome |-> "raised"]
        ELSE [state   |-> S2,
              outcome |-> IF found.value = None THEN "none_found"
                          ELSE IF S2.route_coordinates = None THEN "route_failed"
                          ELSE "routed"]

(***************************************************************************)
(* The st.cache_data caches (helpers.py 14, 50; app.py 29) and one pass of *)
(* the script (app.py 66-82)                                               *)
(***************************************************************************)
STATUS_TTL == 60
INFO_TTL == 3600
LOAD_TTL == 60

\* How far the clock runs, and the steps it advances by
MaxTime == 3700
Steps == {50, 3560}

\* What a fetch gives: a URLError, a feed without usable stations, or stations
FetchKinds == {"error", "empty", "ok"}

\* A cache entry is served while it is younger than its ttl
Fresh(cache, ttl, t) == cache # None /\ t - cache[1].at < ttl

\* A cached call: the entry if fresh, else the function runs and is stored
Cached(cache, ttl, t, kind) ==
    IF Fresh(cache, ttl, t) THEN cache ELSE Some([at |-> t, kind |-> kind])

\* load_station_data through its own cache (app.py 29-55, 66): on a miss it
\* calls the two cached fetchers; stations_df is empty when either is empty
CachedLoad(sc, ic, lc, t, skind, ikind) ==
    IF Fresh(lc, LOAD_TTL, t)
    THEN [status |-> sc, info |-> ic, load |-> lc]
    ELSE LET s == Cached(sc, STATUS_TTL, t, skind)
             i == Cached(ic, INFO_TTL, t, ikind)
         IN  [status |-> s, info |-> i,
              load   |-> Some([at        |-> t,
                               status_at |-> s[1].at,
                               info_at   |-> i[1].at,
                               empty     |-> s[1].kind # "ok" \/ i[1].kind # "ok"])]

\* app.py 66-82: st.stop() at line 70 ends an unavailable pass before the
\* sidebar, and with it the refresh button of line 81, is drawn.  The ages
\* are those, at the time of the pass, of the fetches the snapshot was built from
RunPass(sc, ic, lc, t, skind, ikind) ==
    LET c == CachedLoad(sc, ic, lc, t, skind, ikind)
    IN  [caches |-> c,
         pass   |-> [done            |-> TRUE,
                     unavailable     |-> c.load[1].empty,
                     refresh_offered |-> ~c.load[1].empty,
                     status_age      |-> t - c.load[1].status_at,
                     info_age        |-> t - c.load[1].info_at]]

NoPass == [done |-> FALSE, unavailable |-> FALSE, refresh_offered |-> FALSE,
           status_age |-> 0, info_age |-> 0]

(***************************************************************************)
(* Inputs                                                                  *)
(***************************************************************************)
RawIds == {IntId("1"), StrId("1"), IntId("2")}
Gates  == {<<1, 1>>, <<0, 1>>, <<1, 0>>}
\* A report: its last_reported, num_bikes_available and
\* num_bikes_available_types object; NaN is a key the object omits
Reports == {[t |-> 100, n |-> 3, types |-> [mechanical |-> 2, ebike |-> 1]],
            [t |-> 200, n |-> 5, types |-> [mechanical |-> 5, ebike |-> NaN]]}

StatusRecord(id, g, t, b, docks) ==
    [station_id          |-> id,
     is_renting          |-> g[1],
     is_returning        |-> g[2],
     num_bikes_available |-> b.n,
     num_docks_available |-> docks,
     last_reported       |-> t,
     types               |-> b.types]

StatusRecords ==
    {StatusRecord(id, g, b.t, b, 4) : id \in RawIds, g \in Gates, b \in Reports}

FailedFeed == [ok |-> FALSE, has_types |-> FALSE, stations |-> <<>>]

StatusFeeds ==
    {FailedFeed} \cup
    {[ok |-> TRUE, has_types |-> h, stations |-> st] :
        h \in BOOLEAN, st \in SeqsUpTo(StatusRecords, MaxStations)}

InfoRecord1 == [station_id |-> StrId("1"), lat |-> 1, lon |-> 1, capacity |-> 10]
InfoRecord2 == [station_id |-> IntId("2"), lat |-> 2, lon |-> 3, capacity |-> 20]

InfoFeeds ==
    {FailedFeed} \cup
    {[ok |-> TRUE, has_types |-> FALSE, stations |-> st] :
        st \in {<<>>, <<InfoRecord1>>, <<InfoRecord1, InfoRecord2>>}}

\* The feeds of the session model: station 1 has classic bikes and no free
\* dock, station 2 has free docks and no bike; in the third feed a station
\* that is not renting comes first
Station1 == StatusRecord(IntId("1"), <<1, 1>>, 100,
                         [n |-> 5, types |-> [mechanical |-> 5, ebike |-> NaN]], 0)
Station2 == StatusRecord(IntId("2"), <<1, 1>>, 100,
                         [n |-> 0, types |-> [mechanical |-> 0, ebike |-> 0]], 4)
Station2Closed == [Station2 EXCEPT !.is_renting = 0]

SessionStatusFeeds ==
    {FailedFeed,
     [ok |-> TRUE, has_types |-> TRUE, stations |-> <<Station1, Station2>>],
     [ok |-> TRUE, has_types |-> TRUE, stations |-> <<Station2Closed, Station1>>]}

SessionInfoFeeds ==
    {[ok |-> TRUE, has_types |-> FALSE, stations |-> st] :
        st \in {<<InfoRecord1>>, <<InfoRecord1, InfoRecord2>>}}

Addresses == {"nowhere", "times square", "battery park"}
BikeTypeValues == {None, Some("mechanical"), Some("ebike")}

\* Snapshot rows for the resolver called on its own
NearRows ==
    {[idx |-> 0, station_id |-> id, num_bikes_available |-> b, num_docks_available |-> 4,
      last_reported |-> 100, mechanical |-> m, ebike |-> e,
      lat |-> g[1], lon |-> g[2], capacity |-> 10] :
        id \in {"1", "2"}, b \in {0, 5}, m \in {0, 5}, e \in {0, 1},
        g \in {<<NaN, NaN>>, <<1, 1>>, <<2, 3>>}}

NearModes == {<<>>, <<"mechanical">>, <<"ebike">>, <<"mechanical", "ebike">>}

(***************************************************************************)
(* Idle values of the variables a specification does not use               *)
(***************************************************************************)
FeedIdle ==
    /\ status_feed = FailedFeed /\ info_feed = FailedFeed /\ keeps_index = FALSE
    /\ status_df = <<>> /\ info_df = <<>> /\ stations_df = <<>> /\ pc = "start"
NearIdle ==
    /\ near_df = <<>> /\ near_latlon = <<0, 0>> /\ near_modes = <<>>
    /\ near_result = Returned(None)
SessIdle ==
    /\ user_location = None /\ nearest_bike_station = None
    /\ nearest_dock_station = None /\ route_coordinates = None
    /\ route_duration = None
    /\ last = [op |-> "none", outcome |-> "init", before |-> InitialSession]
CacheIdle ==
    /\ now = 0 /\ status_cache = None /\ info_cache = None /\ load_cache = None
    /\ pass = NoPass

(***************************************************************************)
(* SpecFeed: load_station_data on every feed pair                          *)
(***************************************************************************)
FeedInit ==
    /\ status_feed \in StatusFeeds
    /\ info_feed \in InfoFeeds
    /\ keeps_index \in BOOLEAN
    /\ status_df = <<>> /\ info_df = <<>> /\ stations_df = <<>> /\ pc = "start"
    /\ NearIdle /\ SessIdle /\ CacheIdle

LoadStationData ==
    /\ pc = "start"
    /\ LET r == load_station_data(status_feed, info_feed, keeps_index)
       IN  /\ status_df' = r.status_df
           /\ info_df' = r.info_df
           /\ stations_df' = r.stations_df
    /\ pc' = "loaded"
    /\ UNCHANGED <<status_feed, info_feed, keeps_index, nearVars, sessVars, cacheVars>>

FeedNext == LoadStationData
SpecFeed == FeedInit /\ [][FeedNext]_vars

(***************************************************************************)
(* SpecNearest: get_bike_availability on every snapshot, point and modes   *)
(***************************************************************************)
NearInit ==
    /\ near_df \in SeqsUpTo(NearRows, MaxRows) \ {<<>>}
    /\ near_latlon \in {<<1, 1>>, <<3, 3>>}
    /\ near_modes \in NearModes
    /\ near_result = Returned(None)
    /\ pc = "start"
    /\ status_feed = FailedFeed /\ info_feed = FailedFeed /\ keeps_index = FALSE
    /\ status_df = <<>> /\ info_df = <<>> /\ stations_df = <<>>
    /\ SessIdle /\ CacheIdle

GetBikeAvailability ==
    /\ pc = "start"
    /\ near_result' = get_bike_availability(near_latlon, near_df, near_modes)
    /\ pc' = "called"
    /\ UNCHANGED <<near_df, near_latlon, near_modes, status_feed, info_feed,
                   keeps_index, status_df, info_df, stations_df, sessVars, cacheVars>>

NearNext == GetBikeAvailability
SpecNearest == NearInit /\ [][NearNext]_vars

(***************************************************************************)
(* Spec: the session.  Every action is one pass of the script.             *)
(***************************************************************************)
Init ==
    /\ status_feed \in SessionStatusFeeds
    /\ info_feed \in SessionInfoFeeds
    /\ keeps_index \in BOOLEAN
    /\ LET r == load_station_data(status_feed, info_feed, keeps_index)
       IN  status_df = r.status_df /\ info_df = r.info_df /\ stations_df = r.stations_df
    /\ pc = "loaded"
    /\ SessIdle /\ NearIdle /\ CacheIdle

\* load_station_data's cache has expired or was cleared: the pass works on
\* what the endpoints answer now
Reload(sf, if) ==
    /\ status_feed' = sf
    /\ info_feed' = if
    /\ LET r == load_station_data(sf, if, keeps_index)
       IN  /\ status_df' = r.status_df
           /\ info_df' = r.info_df
           /\ stations_df' = r.stations_df
    /\ UNCHANGED <<keeps_index, pc, nearVars, cacheVars>>

\* a pass no button started, after the cache expired
Rerun ==
    /\ \E sf \in SessionStatusFeeds, if \in SessionInfoFeeds : Reload(sf, if)
    /\ UNCHANGED sessVars

\* app.py 58-63, 81-82: the button exists only on a pass that got past line 70
RefreshData ==
    /\ stations_df # <<>>
    /\ \E sf \in SessionStatusFeeds, if \in SessionInfoFeeds : Reload(sf, if)
    /\ UNCHANGED sessVars

\* app.py 197-200 on a pass that got past line 70, with an address typed
Lookup(address, lookup_type, bike_type_value, answer) ==
    /\ stations_df # <<>>
    /\ LET r == lookup_and_store_nearest(SessionState, stations_df, address,
                                         lookup_type, bike_type_value, answer)
       IN  /\ user_location' = r.state.user_location
           /\ nearest_bike_station' = r.state.nearest_bike_station
           /\ nearest_dock_station' = r.state.nearest_dock_station
           /\ route_coordinates' = r.state.route_coordinates
           /\ route_duration' = r.state.route_duration
           /\ last' = [op |-> lookup_type, outcome |-> r.outcome, before |-> SessionState]
    /\ UNCHANGED <<feedVars, nearVars, cacheVars>>

NearestBikes ==
    \E a \in Addresses, b \in BikeTypeValues, o \in OsrmAnswers : Lookup(a, "bike", b, o)

NearestDocks ==
    \E a \in Addresses, b \in BikeTypeValues, o \in OsrmAnswers : Lookup(a, "dock", b, o)

Next == Rerun \/ RefreshData \/ NearestBikes \/ NearestDocks
Spec == Init /\ [][Next]_vars

(***************************************************************************)
(* SpecCache: passes, the refresh button and the clock                     *)
(***************************************************************************)
CacheInit == CacheIdle /\ FeedIdle /\ NearIdle /\ SessIdle

Apply(r) ==
    /\ status_cache' = r.caches.status
    /\ info_cache' = r.caches.info
    /\ load_cache' = r.caches.load
    /\ pass' = r.pass

\* An entry that has outlived its ttl is gone from its cache
Expire(cache, ttl, t) == IF Fresh(cache, ttl, t) THEN cache ELSE None

Tick ==
    /\ \E d \in Steps :
          /\ now + d <= MaxTime
          /\ now' = now + d
          /\ status_cache' = Expire(status_cache, STATUS_TTL, now + d)
          /\ info_cache' = Expire(info_cache, INFO_TTL, now + d)
          /\ load_cache' = Expire(load_cache, LOAD_TTL, now + d)
    /\ UNCHANGED <<pass, feedVars, nearVars, sessVars>>

\* any interaction reruns the script
Pass ==
    /\ \E sk \in FetchKinds, ik \in FetchKinds :
          Apply(RunPass(status_cache, info_cache, load_cache, now, sk, ik))
    /\ UNCHANGED <<now, feedVars, nearVars, sessVars>>

\* app.py 58-63: the three caches cleared, then st.rerun()
refresh_data ==
    /\ pass.done /\ pass.refresh_offered
    /\ \E sk \in FetchKinds, ik \in FetchKinds :
          Apply(RunPass(None, None, None, now, sk, ik))
    /\ UNCHANGED <<now, feedVars, nearVars, sessVars>>

CacheNext == Tick \/ Pass \/ refresh_data
SpecCache == CacheInit /\ [][CacheNext]_vars

(***************************************************************************)
(* Properties                                                              *)
(***************************************************************************)
Returns == {"none_found", "route_failed", "routed"}
Stations == status_feed.stations
Key(rec) == <<astype_str(rec.station_id), rec.last_reported>>
RowKey(row) == <<row.station_id, row.last_reported>>

NoneFoundClearsAll ==
    last.outcome = "none_found" =>
        /\ nearest_bike_station = None /\ nearest_dock_station = None
        /\ route_coordinates = None /\ route_duration = None

\* C2 witness: nothing was found while an earlier result and route were stored
NoneFoundAfterRoutedSearch ==
    /\ last.outcome = "none_found"
    /\ last.before.route_coordinates # None /\ last.before.route_duration # None
    /\ (last.before.nearest_bike_station # None \/ last.before.nearest_dock_station # None)

\* C3: on every pass, an unavailable one included, the refresh trigger is
\* offered to the user.
RefreshAlwaysOffered == pass.done => pass.refresh_offered

\* C4: on every pass the snapshot handed on was built from a status fetch at
\* most 60 seconds old and an info fetch at most 3600 seconds old.
StalenessWithinTTL ==
    (pass.done /\ ~pass.unavailable) =>
        pass.status_age <= STATUS_TTL /\ pass.info_age <= INFO_TTL

\* C5: every row query_station_status returns carries the mechanical and
\* ebike counts of its own station's breakdown object (0 for an omitted
\* sub-type); without a breakdown in the feed both are 0 on every row.
BreakdownOfOwnStation ==
    pc = "loaded" =>
        \A i \in DOMAIN status_df :
            IF status_feed.has_types
            THEN \E k \in DOMAIN Stations :
                    /\ PassesGate(Stations[k])
                    /\ Key(Stations[k]) = RowKey(status_df[i])
                    /\ status_df[i].mechanical = fillna0(Stations[k].types.mechanical)
                    /\ status_df[i].ebike = fillna0(Stations[k].types.ebike)
            ELSE status_df[i].mechanical = 0 /\ status_df[i].ebike = 0

\* C6: the reconciled snapshot has no row for a status record that failed a
\* gate, and every row it has is the row of a record that passed both.
OnlyUsableStations ==
    pc = "loaded" =>
        /\ \A i \in DOMAIN stations_df :
              \E k \in DOMAIN Stations :
                  /\ PassesGate(Stations[k])
                  /\ Key(Stations[k]) = RowKey(stations_df[i])
                  /\ stations_df[i].num_bikes_available = Stations[k].num_bikes_available
                  /\ stations_df[i].num_docks_available = Stations[k].num_docks_available
        /\ \A k \in DOMAIN Stations :
              ~PassesGate(Stations[k]) =>
                  \A i \in DOMAIN stations_df :
                      Key(Stations[k]) = RowKey(stations_df[i]) =>
                          \E k2 \in DOMAIN Stations :
                              PassesGate(Stations[k2]) /\ Key(Stations[k2]) = Key(Stations[k])

\* C7: status records with the same station id (compared as strings) and the
\* same last_reported collapse to one row of the reconciled snapshot.
OneRowPerStationAndReport ==
    pc = "loaded" =>
        \A k \in DOMAIN Stations :
            Cardinality({i \in DOMAIN stations_df :
                            RowKey(stations_df[i]) = Key(Stations[k])}) <= 1

\* Whether the info frame has a record of the station
InInfo(rec) == \E m \in DOMAIN info_df : info_df[m].station_id = astype_str(rec.station_id)

\* A usable status record is in the frame j, with the info columns unset if
\* the info frame has no record of it and those of its info record otherwise
JoinedIn(j, rec) ==
    \E i \in DOMAIN j :
        /\ RowKey(j[i]) = Key(rec)
        /\ IF InInfo(rec)
           THEN \E m \in DOMAIN info_df :
                   /\ info_df[m].station_id = j[i].station_id
                   /\ j[i].lat = info_df[m].lat /\ j[i].lon = info_df[m].lon
                   /\ j[i].capacity = info_df[m].capacity
           ELSE j[i].lat = NaN /\ j[i].lon = NaN /\ j[i].capacity = NaN

\* C8, as stated: every status record that passes the gate is in the frame
\* join_latlon returns, with lat/lon unset when the info frame has no record
\* of it, an empty or missing info frame included.
EveryUsableRecordJoined ==
    pc = "loaded" =>
        \A k \in DOMAIN Stations :
            PassesGate(Stations[k]) => JoinedIn(join_latlon(status_df, info_df), Stations[k])

\* C8, amended: that holds whenever the info frame has a row; when it has
\* none (the fetch failed or the feed lists no station) join_latlon returns
\* the empty frame.
EveryUsableRecordJoinedUnlessInfoEmpty ==
    pc = "loaded" =>
        IF info_df = <<>>
        THEN join_latlon(status_df, info_df) = <<>>
        ELSE \A k \in DOMAIN Stations :
                PassesGate(Stations[k]) =>
                    JoinedIn(join_latlon(status_df, info_df), Stations[k])

\* C8 witness: a usable station without an info record is in the snapshot,
\* its coordinates unset, beside one that has an info record
UnmatchedStationKept ==
    /\ pc = "loaded" /\ info_df # <<>>
    /\ \E i, j \in DOMAIN stations_df :
          /\ stations_df[i].station_id # "nan" /\ stations_df[i].lat = NaN
          /\ stations_df[j].lat # NaN

\* The stations a bike search may return
Eligible(row, modes) ==
    /\ row.num_bikes_available > 0
    /\ IF modes = <<"mechanical">> THEN row.mechanical > 0
       ELSE IF modes = <<"ebike">> THEN row.ebike > 0
       ELSE row.mechanical > 0 \/ row.ebike > 0

NearestEligible(result, latlon, df, modes) ==
    LET E == {i \in DOMAIN df : Eligible(df[i], modes)}
        d(i) == Distance(latlon, df[i].lat, df[i].lon)
    IN  /\ ~result.raised
        /\ result.value = None <=> E = {}
        /\ E # {} =>
              \E i \in E :
                  /\ result.value = <<df[i].station_id, df[i].lat, df[i].lon>>
                  /\ \A j \in E : d(j) >= d(i)

\* C9: get_bike_availability returns None exactly when no station is
\* eligible, and otherwise an eligible station than which no eligible
\* station is strictly closer.
NearestBikeIsNearestEligible ==
    pc = "called" => NearestEligible(near_result, near_latlon, near_df, near_modes)

\* What does hold of get_bike_availability: the same, on the snapshots in
\* which every row has coordinates
NearestBikeIsNearestEligibleWhenLocated ==
    (pc = "called" /\ ~DistanceRaises(near_df)) =>
        NearestEligible(near_result, near_latlon, near_df, near_modes)

\* the stored nearest result, when exactly one is stored
StoredNearest ==
    IF nearest_bike_station # None THEN nearest_bike_station ELSE nearest_dock_station

\* C10: the two route fields are None together; they are set only while
\* exactly one nearest result is stored and are then run_osrm's route from
\* the stored user_location to that station; a geocode miss changes nothing;
\* a routing failure stores the nearest result with both route fields None.
RouteIsOfStoredQuery ==
    /\ route_coordinates = None <=> route_duration = None
    /\ route_coordinates # None =>
          /\ (nearest_bike_station # None) # (nearest_dock_station # None)
          /\ <<route_coordinates, route_duration>>
                 = run_osrm(StoredNearest, user_location, "ok")
    /\ last.outcome = "geocode_miss" => SessionState = last.before
    /\ last.outcome = "route_failed" =>
          /\ (nearest_bike_station # None) # (nearest_dock_station # None)
          /\ route_coordinates = None /\ route_duration = None
====
